---------------------------- MODULE Spec2Model ----------------------------
(***************************************************************************)
(* Model of testing.py of the iCSD toolbox: the three potential kernels,   *)
(* the three LFP synthesizers built on them, the validation scenarios of   *)
(* TestICSD and the runner test().                                         *)
(*                                                                         *)
(* Numbers.  A float is modelled by an exact rational;                     *)
(* np.sqrt is exact on squares of rationals and otherwise truncated *)
(* to SqrtRes steps of the square-free part, which keeps                    *)
(* sqrt(a^2 * x) = a * sqrt(x) for every rational a.  Round-off of the     *)
(* order of 1e-16 is therefore not represented.                            *)
(*                                                                         *)
(* Units.  A unit of the quantities package is modelled by its dimension   *)
(* over metre (L), ampere (A) and siemens (S) and by its decimal scale e   *)
(* relative to the SI unit of that dimension: mm is [L = 1, e = -3], V is   *)
(* [A = 1, S = -1, e = 0].  Two units compare equal (Quantity.__eq__ on    *)
(* the .units of two quantities) exactly when dimension and scale agree.   *)
(***************************************************************************)
EXTENDS Integers, Sequences, FiniteSets, TLC

(***************************************************************************)
(* Rational arithmetic.  A number is [n, d, e], the value (n / d) * 10^e,  *)
(* in the one form with d > 0, n / d in lowest terms and neither n nor d  *)
(* divisible by 5 (zero is [0, 1, 0]): magnitudes such as 1E-4 stay small. *)
(***************************************************************************)
Abs(x) == IF x < 0 THEN -x ELSE x

RECURSIVE GCD(_, _)
GCD(a, b) == IF b = 0 THEN a ELSE GCD(b, a % b)

RECURSIVE Pow10(_)
Pow10(e) == IF e = 0 THEN 1 ELSE 10 * Pow10(e - 1)

Zero == [n |-> 0, d |-> 1, e |-> 0]

RECURSIVE Norm5(_, _, _)
\* n / d in lowest terms, n # 0: the factors 5 go into the exponent
Norm5(n, d, e) ==
    IF n % 5 = 0
    THEN (IF (n \div 5) % 2 = 0 THEN Norm5((n \div 5) \div 2, d, e + 1)
                               ELSE Norm5(n \div 5, 2 * d, e + 1))
    ELSE IF d % 5 = 0
    THEN (IF (d \div 5) % 2 = 0 THEN Norm5(n, (d \div 5) \div 2, e - 1)
                               ELSE Norm5(2 * n, d \div 5, e - 1))
    ELSE [n |-> n, d |-> d, e |-> e]

\* (n / d) * 10^e, d # 0
RatE(n, d, e) ==
    IF n = 0 THEN Zero
    ELSE LET g == GCD(Abs(n), Abs(d))
             s == IF d < 0 THEN -1 ELSE 1
         IN  Norm5((s * n) \div g, (s * d) \div g, e)

Rat(n, d) == RatE(n, d, 0)

RNeg(a) == [a EXCEPT !.n = -a.n]

RAbs(a) == [a EXCEPT !.n = Abs(a.n)]

RAdd(a, b) ==
    IF a.n = 0 THEN b
    ELSE IF b.n = 0 THEN a
    ELSE LET e0 == IF a.e < b.e THEN a.e ELSE b.e
             an == a.n * Pow10(a.e - e0)
             bn == b.n * Pow10(b.e - e0)
             g  == GCD(a.d, b.d)
         IN  RatE(an * (b.d \div g) + bn * (a.d \div g), (a.d \div g) * b.d, e0)

RSub(a, b) == RAdd(a, RNeg(b))

RMul(a, b) ==
    LET g1 == GCD(Abs(a.n), b.d)
        g2 == GCD(Abs(b.n), a.d)
    IN  IF a.n = 0 \/ b.n = 0 THEN Zero
        ELSE RatE((a.n \div g1) * (b.n \div g2), (a.d \div g2) * (b.d \div g1),
                  a.e + b.e)

\* 1 / a, a # 0
RInv(a) == RatE(a.d, a.n, -a.e)

RDiv(a, b) == RMul(a, RInv(b))

RLess(a, b) == RSub(a, b).n < 0

RLeq(a, b) == RSub(a, b).n <= 0

\* a * 10^k
RScale(a, k) == IF a.n = 0 THEN Zero ELSE [a EXCEPT !.e = @ + k]

\* Truncation steps per unit of np.sqrt on a non-square.
SqrtRes == 100

RECURSIVE ISqrtBits(_, _, _)
\* largest r with r*r <= n, r searched among lo..hi by bisection
ISqrtBits(n, lo, hi) ==
    IF lo >= hi THEN lo
    ELSE LET mid == (lo + hi + 1) \div 2
         IN  IF mid <= n \div mid THEN ISqrtBits(n, mid, hi)
                                   ELSE ISqrtBits(n, lo, mid - 1)

ISqrt(n) == IF n < 2 THEN n ELSE ISqrtBits(n, 1, n)

RECURSIVE SquarePartFrom(_, _)
\* the largest s with s*s dividing n, where n has no prime factor below p
SquarePartFrom(n, p) ==
    IF p * p * p > n
    THEN (IF ISqrt(n) * ISqrt(n) = n THEN ISqrt(n) ELSE 1)
    ELSE IF n % (p * p) = 0 THEN p * SquarePartFrom(n \div (p * p), p)
    ELSE IF n % p = 0 THEN SquarePartFrom(n \div p, p + 1)
    ELSE SquarePartFrom(n, p + 1)

\* the largest s with s*s dividing n (n > 0)
SquarePart(n) == SquarePartFrom(n, 2)

\* s * sqrt(t), sqrt(t) truncated to a multiple of 1 / SqrtRes, times 10^half
ScaledRoot(s, t, half) ==
    RMul([s EXCEPT !.e = @ + half], RatE(ISqrt(t * SqrtRes * SqrtRes), SqrtRes, 0))

\* sqrt(n / d) * 10^half from the square parts sn, sd of n and d
RootOfParts(n, d, sn, sd, half) ==
    ScaledRoot(RatE(sn, sd * (d \div (sd * sd)), 0),
               (n \div (sn * sn)) * (d \div (sd * sd)), half)

\* sqrt(n / d) * 10^half, n / d > 0 in lowest terms
RootOfFraction(n, d, half) == RootOfParts(n, d, SquarePart(n), SquarePart(d), half)

\* np.sqrt of a non-negative rational: with x = s^2 * t, s rational and t a
\* square-free integer, s times sqrt(t) truncated to a multiple of 1/SqrtRes
RSqrt(a) ==
    IF a.n = 0 THEN Zero
    ELSE IF a.e % 2 = 0 THEN RootOfFraction(a.n, a.d, a.e \div 2)
    ELSE RootOfFraction(a.n * (10 \div GCD(10, a.d)), a.d \div GCD(10, a.d),
                        a.e \div 2)

(***************************************************************************)
(* Units and quantities (the quantities package, imported as pq)           *)
(***************************************************************************)
Unit(l, a, s, e) == [L |-> l, A |-> a, S |-> s, e |-> e]

pq_dimensionless == Unit(0, 0, 0, 0)
pq_m  == Unit(1, 0, 0, 0)
pq_mm == Unit(1, 0, 0, -3)
pq_A  == Unit(0, 1, 0, 0)
pq_S  == Unit(0, 0, 1, 0)
pq_mS == Unit(0, 0, 1, -3)
pq_V  == Unit(0, 1, -1, 0)
pq_mV == Unit(0, 1, -1, -3)

UMul(u, v) == Unit(u.L + v.L, u.A + v.A, u.S + v.S, u.e + v.e)

UDiv(u, v) == Unit(u.L - v.L, u.A - v.A, u.S - v.S, u.e - v.e)

UPow(u, k) == Unit(u.L * k, u.A * k, u.S * k, u.e * k)

\* unit of np.sqrt(q): every exponent halved
USqrt(u) == Unit(u.L \div 2, u.A \div 2, u.S \div 2, u.e \div 2)

SameDimension(u, v) == u.L = v.L /\ u.A = v.A /\ u.S = v.S

\* the unit .simplified converts to: same dimension, SI scale
USimplified(u) == Unit(u.L, u.A, u.S, 0)

A_per_m2 == UDiv(pq_A, UPow(pq_m, 2))
A_per_m3 == UDiv(pq_A, UPow(pq_m, 3))
S_per_m  == UDiv(pq_S, pq_m)
mS_per_m == UDiv(pq_mS, pq_m)

\* a scalar quantity
Q(mag, units) == [mag |-> mag, units |-> units]

\* a unit comparison that accepts every unit of the same dimension
C3_Reconciling(u, v) == SameDimension(u, v)

\* q.units == r.units: rescale r.units into q.units and compare with 1.0;
\* a failed rescale (different dimension) compares False
UnitsEqual(u, v) == SameDimension(u, v) /\ u.e = v.e

\* q.rescale(u).magnitude, defined when the dimensions agree
RescaledMag(q, u) == RScale(q.mag, q.units.e - u.e)

QSimplified(q) == Q(RescaledMag(q, USimplified(q.units)), USimplified(q.units))

\* the physical value denoted: equal for 1 m and 1000 mm
Physical(q) == QSimplified(q)

QMul(q, r) == Q(RMul(q.mag, r.mag), UMul(q.units, r.units))

QDiv(q, r) == Q(RDiv(q.mag, r.mag), UDiv(q.units, r.units))

QNeg(q) == Q(RNeg(q.mag), q.units)

\* the quantity itself, with its sign
C13_Signed(q) == q

QAbs(q) == Q(RAbs(q.mag), q.units)

\* number * quantity
QTimes(k, q) == Q(RMul(k, q.mag), q.units)

\* q + r and q - r: r is rescaled to the units of q
QAdd(q, r) == Q(RAdd(q.mag, RescaledMag(r, q.units)), q.units)

QSub(q, r) == Q(RSub(q.mag, RescaledMag(r, q.units)), q.units)

QSqrt(q) == Q(RSqrt(q.mag), USqrt(q.units))

QSquare(q) == QMul(q, q)

(***************************************************************************)
(* State                                                                   *)
(***************************************************************************)
VARIABLES
    kcall,      \* the arguments of the kernel call made last
    kres,       \* what that call did: returned a value, or raised
    spc,        \* position in the synthesizer: idle, loop, finish, returned, raised
    sargs,      \* the synthesizer's arguments (its parameters are never rebound)
    given,      \* history: the arguments as the caller passed them, and the
                \* number of figures open at the call
    phi_j,      \* the trace being accumulated
    si,         \* index i of the outer loop over the sources
    sj,         \* index j of the inner loop over the electrodes
    calls,      \* history: how often the kernel was called for each <<i, j>>
    sret,       \* the synthesizer's return value <<phi_j, C_i>>
    figures,    \* number of figures plt.figure() has opened
    rpc,        \* position of the script: start, running, reported, exited
    suite,      \* the loaded suite: test names in running order
    tnext,      \* index in suite of the test running or to run next
    tpc,        \* position in the running test
    tlocals,    \* the running test's locals z_j, z_i, C_i, R_i, h_i, sigma, plot
    ttrace,     \* the running test's phi_j
    tinput,     \* the running test's estimator input
    tcsd,       \* the running test's csd
    ran,        \* history: how often each test has been started
    outcomes,   \* the result object: ok, FAIL or ERROR for each test run
    modes,      \* history: what the estimator did in each test
    deviations, \* history: the estimator calls that broke the contract
    report,     \* what the runner has printed after the suite
    exitStatus, \* the exit status of the script, -1 while it runs
    parked      \* the frame of a second scenario that is started and is not
                \* running now, when two scenarios are run interleaved

kvars == <<kcall, kres>>

svars == <<spc, sargs, given, phi_j, si, sj, calls, sret, figures>>

rvars == <<rpc, suite, tnext, tpc, tlocals, ttrace, tinput, tcsd, ran, outcomes,
           modes, deviations, report, exitStatus, parked>>

vars == <<kvars, svars, rvars>>

(***************************************************************************)
(* The potential kernels                                                   *)
(***************************************************************************)
NoValue == [none |-> TRUE]

\* a call that raised before returning; work counts the numeric
\* evaluations (kernel formula, integrand) made before the raise
Raised(err, work) == [status |-> "raised", err |-> err, val |-> NoValue, work |-> work]

Returned(val, work) == [status |-> "returned", err |-> "", val |-> val, work |-> work]

Two == Rat(2, 1)

\* a unit assertion that lets every pair of units through
C2_AssertNothing(z_j, z_i) == TRUE

\* assert(z_j.units == z_i.units)
PlaneUnitsAsserted(z_j, z_i) == UnitsEqual(z_j.units, z_i.units)

potential_of_plane(z_j, z_i, C_i, sigma) ==
    IF ~PlaneUnitsAsserted(z_j, z_i)
    THEN Raised("units not equal", 0)
    ELSE IF ~SameDimension(z_j.units, z_i.units)
    THEN Raised("ValueError", 1)
    ELSE Returned(QMul(QDiv(QNeg(C_i), QTimes(Two, sigma)),
                       QSimplified(QAbs(QSub(z_j, z_i)))), 1)

\* assert(z_j.units == z_i.units == R_i.units)
DiskUnitsAsserted(z_j, z_i, R_i) ==
    UnitsEqual(z_j.units, z_i.units) /\ UnitsEqual(z_i.units, R_i.units)

\* np.sqrt(d**2 + R_i**2) - abs(d), d standing for z_j-z_i
DiskBracket(d, R_i) == QSub(QSqrt(QAdd(QSquare(d), QSquare(R_i))), QAbs(d))

potential_of_disk(z_j, z_i, C_i, R_i, sigma) ==
    IF ~DiskUnitsAsserted(z_j, z_i, R_i)
    THEN Raised("units not equal", 0)
    ELSE IF ~(SameDimension(z_j.units, z_i.units) /\ SameDimension(z_i.units, R_i.units))
    THEN Raised("ValueError", 1)
    ELSE Returned(QMul(QDiv(C_i, QTimes(Two, sigma)),
                       QSimplified(DiskBracket(QSub(z_j, z_i), R_i))), 1)

\* assert(z_j.units == z_i.units == R_i.units == h_i.units)
CylinderUnitsAsserted(z_j, z_i, R_i, h_i) ==
    /\ UnitsEqual(z_j.units, z_i.units)
    /\ UnitsEqual(z_i.units, R_i.units)
    /\ UnitsEqual(R_i.units, h_i.units)

\* 1/(2*_sigma)*(np.sqrt(dz**2 + _R_i**2) - abs(dz)), dz standing for z-_z_j
IntegrandAt(dz, _sigma, _R_i) ==
    RMul(RInv(RMul(Two, _sigma)),
         RSub(RSqrt(RAdd(RMul(dz, dz), RMul(_R_i, _R_i))), RAbs(dz)))

\* the integrand of potential_of_cylinder, on unit-stripped floats
integrand(z, _sigma, _z_j, _R_i) == IntegrandAt(RSub(z, _z_j), _sigma, _R_i)

\* Simpson's rule and the trapezoid rule on the values fa, fm, fb of the
\* integrand at the ends and the middle of an interval of width w
Simpson(w, fa, fm, fb) ==
    RMul(w, RDiv(RAdd(RAdd(fa, RMul(Rat(4, 1), fm)), fb), Rat(6, 1)))

Trapezoid(w, fa, fb) == RMul(w, RDiv(RAdd(fa, fb), Two))

\* value and error estimate from a rule and the rule nested in it
QuadResult(value, nested) == <<value, RAbs(RSub(value, nested))>>

QuadRules(w, fa, fm, fb) == QuadResult(Simpson(w, fa, fm, fb), Trapezoid(w, fa, fb))

\* a quadrature that returns the integrand at the midpoint, not the integral
C8_MidpointValue(a, b, _sigma, _z_j, _R_i) ==
    <<integrand(RDiv(RAdd(a, b), Two), _sigma, _z_j, _R_i), Zero>>

\* si.quad(integrand, a, b): <<value, abserr>>.  QUADPACK compares two
\* nested rules on the same nodes; the model nests the trapezoid rule (the
\* comparison) in Simpson's rule (the value) on the nodes a, (a+b)/2, b.
quad(a, b, _sigma, _z_j, _R_i) ==
    QuadRules(RSub(b, a), integrand(a, _sigma, _z_j, _R_i),
              integrand(RDiv(RAdd(a, b), Two), _sigma, _z_j, _R_i),
              integrand(b, _sigma, _z_j, _R_i))

QuadEvaluations == 3

\* a return value that carries the error estimate with the potential
C9_ReturnWithEstimate(phi, abserr, z_i, sigma) ==
    [mag |-> phi.mag, units |-> UDiv(UMul(phi.units, UPow(z_i.units, 2)), sigma.units),
     abserr |-> abserr.mag]

\* a return with the length unit to the third power
C14_SpuriousExponent(phi, abserr, z_i, sigma) ==
    QDiv(QMul(phi, Q(Rat(1, 1), UPow(z_i.units, 3))),
         Q(Rat(1, 1), sigma.units))

\* phi, abserr are the locals phi_j, abserr of the kernel:
\* return (phi_j * z_i.units**2 / sigma.units)
CylinderReturn(phi, abserr, z_i, sigma) ==
    QDiv(QMul(phi, Q(Rat(1, 1), UPow(z_i.units, 2))),
         Q(Rat(1, 1), sigma.units))

\* phi_j, abserr = C_i*si.quad(...), and the return
CylinderFromQuad(qd, z_i, C_i, sigma) ==
    Returned(CylinderReturn(QTimes(qd[1], C_i), QTimes(qd[2], C_i), z_i, sigma),
             QuadEvaluations)

\* h_i/2
HalfOf(h_i) == Q(RDiv(h_i.mag, Two), h_i.units)

potential_of_cylinder(z_j, z_i, C_i, R_i, h_i, sigma) ==
    IF ~CylinderUnitsAsserted(z_j, z_i, R_i, h_i)
    THEN Raised("units not equal", 0)
    ELSE CylinderFromQuad(quad(QSub(z_i, HalfOf(h_i)).mag, QAdd(z_i, HalfOf(h_i)).mag,
                               sigma.mag, z_j.mag, R_i.mag),
                          z_i, C_i, sigma)

(***************************************************************************)
(* Kernel calls on inputs drawn from small sets: SpecKernel               *)
(***************************************************************************)
\* field points: lengths in m and in mm, and a conductivity
FieldPoints ==
    { Q(Rat(0, 1), pq_m), Q(Rat(11, 1000), pq_m), Q(Rat(32, 1000), pq_m),
      Q(Rat(11, 1), pq_mm), Q(Rat(32, 1), pq_mm), Q(Rat(-11, 1), pq_mm),
      Q(Rat(3, 10), S_per_m) }

SourcePoints == { Q(Rat(0, 1), pq_m), Q(Rat(0, 1), pq_mm), Q(Rat(11, 1), pq_mm) }

Radii == { Q(Rat(60, 1), pq_mm), Q(Rat(60, 1000), pq_m) }

Heights ==
    { Q(Rat(0, 1), pq_mm), Q(Rat(22, 1), pq_mm), Q(Rat(224, 1), pq_mm),
      Q(Rat(0, 1), pq_m), Q(Rat(224, 1000), pq_m) }

Magnitudes == { Rat(1, 1), Rat(-1, 2) }

Conductivities == { Q(Rat(3, 10), S_per_m), Q(Rat(300, 1), mS_per_m) }

NoCall == [fn |-> "none"]

NoResult == [status |-> "none", err |-> "", val |-> NoValue, work |-> 0]

KernelIdle ==
    /\ kcall = NoCall
    /\ kres = NoResult

CallPlane ==
    /\ kcall = NoCall
    /\ \E z_j \in FieldPoints, z_i \in SourcePoints, c \in Magnitudes,
       sigma \in Conductivities :
        /\ kcall' = [fn |-> "plane", z_j |-> z_j, z_i |-> z_i,
                      C_i |-> Q(c, A_per_m2), sigma |-> sigma]
        /\ kres' = potential_of_plane(z_j, z_i, Q(c, A_per_m2), sigma)
        /\ UNCHANGED <<svars, rvars>>

CallDisk ==
    /\ kcall = NoCall
    /\ \E z_j \in FieldPoints, z_i \in SourcePoints, c \in Magnitudes,
       R_i \in Radii, sigma \in Conductivities :
        /\ kcall' = [fn |-> "disk", z_j |-> z_j, z_i |-> z_i,
                      C_i |-> Q(c, A_per_m2), R_i |-> R_i, sigma |-> sigma]
        /\ kres' = potential_of_disk(z_j, z_i, Q(c, A_per_m2), R_i, sigma)
        /\ UNCHANGED <<svars, rvars>>

CallCylinder ==
    /\ kcall = NoCall
    /\ \E z_j \in FieldPoints, z_i \in SourcePoints, c \in Magnitudes,
       R_i \in Radii, h_i \in Heights, sigma \in Conductivities :
        /\ kcall' = [fn |-> "cylinder", z_j |-> z_j, z_i |-> z_i,
                      C_i |-> Q(c, A_per_m3), R_i |-> R_i, h_i |-> h_i,
                      sigma |-> sigma]
        /\ kres' = potential_of_cylinder(z_j, z_i, Q(c, A_per_m3), R_i, h_i, sigma)
        /\ UNCHANGED <<svars, rvars>>

\* the caller takes the value or the exception
KernelCallerResumes ==
    /\ kcall # NoCall
    /\ kcall' = NoCall
    /\ kres' = NoResult
    /\ UNCHANGED <<svars, rvars>>

NextKernel == CallPlane \/ CallDisk \/ CallCylinder \/ KernelCallerResumes

(***************************************************************************)
(* Arrays of quantities: one unit, magnitudes indexed from 0 as in numpy   *)
(***************************************************************************)
Arr(mags, units) == [mags |-> mags, units |-> units]

Size(a) == Cardinality(DOMAIN a.mags)

Item(a, k) == Q(a.mags[k], a.units)

One == Rat(1, 1)

\* a trace that starts at one volt
C5_OnesTrace(n) == Arr([k \in 0..(n - 1) |-> One], pq_V)

\* np.zeros(n) * units
InitialTrace(n) == Arr([k \in 0..(n - 1) |-> Zero], pq_V)

(***************************************************************************)
(* The LFP synthesizers get_lfp_of_planes, _disks, _cylinders              *)
(***************************************************************************)
\* the kernel call of the loop body for source i and electrode j
KernelCall(args, i, j) ==
    CASE args.fn = "planes" ->
            potential_of_plane(Item(args.z_j, j), Item(args.z_i, i),
                               Item(args.C_i, i), args.sigma)
      [] args.fn = "disks" ->
            potential_of_disk(Item(args.z_j, j), Item(args.z_i, i),
                              Item(args.C_i, i), Item(args.R_i, i), args.sigma)
      [] args.fn = "cylinders" ->
            potential_of_cylinder(Item(args.z_j, j), Item(args.z_i, i),
                                  Item(args.C_i, i), Item(args.R_i, i),
                                  Item(args.h_i, i), args.sigma)

\* an accumulation that stores the last kernel value
C4_Overwrite(phi, j, v) == [phi EXCEPT !.mags[j] = RescaledMag(v, phi.units)]

\* phi_j[j] += v: v is rescaled to the units of phi_j
Accumulate(phi, j, v) ==
    [phi EXCEPT !.mags[j] = RAdd(@, RescaledMag(v, phi.units))]

\* phi_j[j] += k for the outcome k of the kernel call: the kernel may have
\* raised, and so may the in-place addition when the value is no potential
AddKernelValue(k, phi, j) ==
    IF k.status = "raised"
    THEN [status |-> "raised", err |-> k.err, phi |-> phi]
    ELSE IF ~SameDimension(k.val.units, phi.units)
    THEN [status |-> "raised", err |-> "ValueError", phi |-> phi]
    ELSE [status |-> "ok", err |-> "", phi |-> Accumulate(phi, j, k.val)]

\* one pass of the loop body
LoopBody(args, phi, i, j) == AddKernelValue(KernelCall(args, i, j), phi, j)

\* a plot branch taken whatever the flag
C7_AlwaysPlot(plot) == TRUE

\* if plot:
ShouldPlot(plot) == plot

\* a return that hands back the density with its sign flipped
C6_ReturnNegated(phi, args) ==
    <<phi, [args.C_i EXCEPT !.mags = [k \in DOMAIN @ |-> RNeg(@[k])]]>>

\* return phi_j, C_i
SynthReturn(phi, args) == <<phi, args.C_i>>

RECURSIVE InnerLoop(_, _, _, _)
\* after the pass with result r for (i, j): the rest of the inner loop
InnerNext(r, args, i, j) ==
    IF r.status = "raised" THEN r ELSE InnerLoop(args, r.phi, i, j + 1)

\* for j, zj in enumerate(z_j): the passes j, j + 1, ... for the source i
InnerLoop(args, phi, i, j) ==
    IF j >= Size(args.z_j) THEN [status |-> "ok", err |-> "", phi |-> phi]
    ELSE InnerNext(LoopBody(args, phi, i, j), args, i, j)

RECURSIVE OuterLoop(_, _, _)
\* after the inner loop with result r for the source i: the rest of the loop
OuterNext(r, args, i) ==
    IF r.status = "raised" THEN r ELSE OuterLoop(args, r.phi, i + 1)

\* for i, zi in enumerate(z_i): the inner loops of the sources i, i + 1, ...
OuterLoop(args, phi, i) ==
    IF i >= Size(args.z_i) THEN [status |-> "ok", err |-> "", phi |-> phi]
    ELSE OuterNext(InnerLoop(args, phi, i, 0), args, i)

\* what the call does once the loop has ended with result r
AfterLoop(r, args) ==
    IF r.status = "raised"
    THEN [status |-> "raised", err |-> r.err, ret |-> <<>>, figures |-> 0]
    ELSE [status |-> "returned", err |-> "", ret |-> SynthReturn(r.phi, args),
          figures |-> IF ShouldPlot(args.plot) THEN 1 ELSE 0]

\* the whole synthesizer as a function of its arguments
Synthesize(args) == AfterLoop(OuterLoop(args, InitialTrace(Size(args.z_j)), 0), args)

(***************************************************************************)
(* Synthesizer calls on inputs drawn from small sets: SpecSynth           *)
(***************************************************************************)
MaxElectrodes == 3
MaxSources == 3
MaxFigures == 1

\* lengths in mm; the same lengths in m are these divided by 1000
ElectrodeAt(k) == Rat(11 * k, 1)
SourceAt(k) == Rat(20 * k - 5, 1)
DensityAt(k) == IF k % 2 = 0 THEN Rat(-1, 2) ELSE Rat(1, 1)

LengthArray(mm, milli) ==
    IF milli THEN Arr(mm, pq_mm)
             ELSE Arr([k \in DOMAIN mm |-> RScale(mm[k], -3)], pq_m)

RadiusAt(k) == Rat(60, 1)
HeightAt(k) == Rat(10 + 2 * k, 1)

SynthArgs ==
    { [fn |-> fn, z_j |-> LengthArray([k \in 0..(m - 1) |-> ElectrodeAt(k)], ue),
       z_i |-> LengthArray([k \in 0..(n - 1) |-> SourceAt(k)], us),
       C_i |-> Arr([k \in 0..(n - 1) |-> DensityAt(k)],
                   IF fn = "cylinders" THEN A_per_m3 ELSE A_per_m2),
       R_i |-> LengthArray([k \in 0..(n - 1) |-> RadiusAt(k)], us),
       h_i |-> LengthArray([k \in 0..(n - 1) |-> HeightAt(k)], us),
       sigma |-> sigma, plot |-> plot] :
      fn \in {"planes", "disks", "cylinders"},
      m \in 1..MaxElectrodes, n \in 1..MaxSources,
      ue \in BOOLEAN, us \in BOOLEAN,
      sigma \in Conductivities, plot \in BOOLEAN }

NoArgs == [fn |-> "none"]

NoTrace == Arr(<<>>, pq_dimensionless)

SynthIdle ==
    /\ spc = "idle"
    /\ sargs = NoArgs
    /\ given = [args |-> NoArgs, figures |-> 0]
    /\ phi_j = NoTrace
    /\ si = 0
    /\ sj = 0
    /\ calls = <<>>
    /\ sret = <<>>
    /\ figures = 0

\* a call, up to the first pass of the loop
SynthCall ==
    /\ spc = "idle"
    /\ \E args \in SynthArgs :
        /\ args.plot => figures < MaxFigures
        /\ sargs' = args
        /\ given' = [args |-> args, figures |-> figures]
        /\ phi_j' = InitialTrace(Size(args.z_j))
        /\ calls' = [p \in (0..(Size(args.z_i) - 1)) \X (0..(Size(args.z_j) - 1)) |-> 0]
    /\ si' = 0
    /\ sj' = 0
    /\ spc' = "loop"
    /\ sret' = <<>>
    /\ UNCHANGED <<figures, kvars, rvars>>

\* one pass of the loop body, and the step to the next <<i, j>>
SynthStep ==
    /\ spc = "loop"
    /\ \E r \in {LoopBody(sargs, phi_j, si, sj)} :
        /\ calls' = [calls EXCEPT ![<<si, sj>>] = @ + 1]
        /\ phi_j' = r.phi
        /\ IF r.status = "raised"
           THEN spc' = "raised" /\ UNCHANGED <<si, sj>>
           ELSE IF sj + 1 < Size(sargs.z_j)
           THEN spc' = "loop" /\ sj' = sj + 1 /\ UNCHANGED si
           ELSE /\ sj' = 0
                /\ si' = si + 1
                /\ spc' = IF si + 1 < Size(sargs.z_i) THEN "loop" ELSE "finish"
    /\ UNCHANGED <<sargs, given, sret, figures, kvars, rvars>>

\* the plot branch and the return
SynthFinish ==
    /\ spc = "finish"
    /\ figures' = figures + (IF ShouldPlot(sargs.plot) THEN 1 ELSE 0)
    /\ sret' = SynthReturn(phi_j, sargs)
    /\ spc' = "returned"
    /\ UNCHANGED <<sargs, given, phi_j, si, sj, calls, kvars, rvars>>

\* the caller takes the return value or the exception; the call's locals
\* are gone, the figures stay open
CallerResumes ==
    /\ spc \in {"returned", "raised"}
    /\ spc' = "idle"
    /\ sargs' = NoArgs
    /\ given' = [args |-> NoArgs, figures |-> 0]
    /\ phi_j' = NoTrace
    /\ si' = 0
    /\ sj' = 0
    /\ calls' = <<>>
    /\ sret' = <<>>
    /\ UNCHANGED <<figures, kvars, rvars>>

(***************************************************************************)
(* numpy and quantities operations the scenarios use                       *)
(***************************************************************************)
\* the float 1E3
E3 == RScale(One, 3)

\* a * 1E3 * u / v, for a scalar and for an array
\* the unit relabelled, the magnitude as it was
C15_ScalarRelabelled(q, u, v) == Q(q.mag, UDiv(UMul(q.units, u), v))

QTimesE3(q, u, v) == Q(RMul(q.mag, E3), UDiv(UMul(q.units, u), v))

\* the unit relabelled, the magnitudes as they were
C1_Relabelled(a, u, v) == Arr(a.mags, UDiv(UMul(a.units, u), v))

ArrTimesE3(a, u, v) ==
    Arr([k \in DOMAIN a.mags |-> RMul(a.mags[k], E3)], UDiv(UMul(a.units, u), v))

\* np.arange(n), as the sequence of its values
np_arange(n) == [k \in 1..n |-> k - 1]

\* the indices without r + 1
C16_DeleteNext(n, r) == [k \in 1..(n - 1) |-> IF k - 1 < r + 1 THEN k - 1 ELSE k]

\* np.delete(np.arange(n), r)
np_delete(n, r) == [k \in 1..(n - 1) |-> IF k - 1 < r THEN k - 1 ELSE k]

\* a[inds]
Take(a, inds) == Arr([k \in 0..(Len(inds) - 1) |-> a.mags[inds[k + 1]]], a.units)

RECURSIVE SumMags(_, _)
SumMags(a, n) == IF n = 0 THEN Zero ELSE RAdd(SumMags(a, n - 1), a.mags[n - 1])

\* a.mean() * 2
MeanTimesTwo(a) ==
    Q(RMul(RDiv(SumMags(a, Size(a)), Rat(Size(a), 1)), Two), a.units)

\* a * 2
ArrTimesTwo(a) == Arr([k \in DOMAIN a.mags |-> RMul(a.mags[k], Two)], a.units)

\* nt.assert_array_almost_equal(x, y), decimal = 6: same shape and
\* abs(x - y) < 1.5 * 10**(-6) at every index; it looks at magnitudes
AlmostEqual(x, y) ==
    /\ DOMAIN x.mags = DOMAIN y.mags
    /\ \A k \in DOMAIN x.mags :
          RLess(RAbs(RSub(x.mags[k], y.mags[k])), RScale(Rat(15, 1), -7))

(***************************************************************************)
(* The scenarios of TestICSD                                               *)
(***************************************************************************)
\* np.arange(21): the number of contact points of every scenario
NumContacts == 21

\* what a scenario shares with the others of the suite; the fields say
\*   amp        the factor on the ground truth [-.5, 1., -.5]
\*   lfp_mV     lfp handed as phi_j*1E3*pq.mV/pq.V
\*   lengths_mm coord_electrode (diam, h) handed as x*1E3*pq.mm/pq.m
\*   sigma_mS   sigma (sigma_top) handed as sigma*1E3*pq.mS/pq.S
\*   removed    contact 5 removed from what is handed: x[inds]
Scenario(name, estimator, fn) ==
    [name |-> name, estimator |-> estimator, fn |-> fn, amp |-> One,
     sigma |-> Q(Rat(3, 10), S_per_m), plot |-> FALSE, lfp_mV |-> FALSE,
     lengths_mm |-> FALSE, sigma_mS |-> FALSE, removed |-> FALSE]

TestICSD ==
    { Scenario("test_StandardCSD_00", "StandardCSD", "planes"),
      [Scenario("test_StandardCSD_01", "StandardCSD", "planes")
          EXCEPT !.amp = E3, !.lfp_mV = TRUE],
      [Scenario("test_StandardCSD_02", "StandardCSD", "planes")
          EXCEPT !.lengths_mm = TRUE],
      [Scenario("test_StandardCSD_03", "StandardCSD", "planes")
          EXCEPT !.sigma = Q(Rat(3, 10), mS_per_m), !.sigma_mS = TRUE],
      Scenario("test_DeltaiCSD_00", "DeltaiCSD", "disks"),
      [Scenario("test_DeltaiCSD_01", "DeltaiCSD", "disks") EXCEPT !.lfp_mV = TRUE],
      [Scenario("test_DeltaiCSD_02", "DeltaiCSD", "disks") EXCEPT !.lengths_mm = TRUE],
      [Scenario("test_DeltaiCSD_03", "DeltaiCSD", "disks") EXCEPT !.sigma_mS = TRUE],
      [Scenario("test_DeltaiCSD_04", "DeltaiCSD", "disks") EXCEPT !.removed = TRUE],
      Scenario("test_StepiCSD_units_00", "StepiCSD", "cylinders"),
      [Scenario("test_StepiCSD_01", "StepiCSD", "cylinders") EXCEPT !.lfp_mV = TRUE],
      [Scenario("test_StepiCSD_02", "StepiCSD", "cylinders") EXCEPT !.lengths_mm = TRUE],
      [Scenario("test_StepiCSD_03", "StepiCSD", "cylinders") EXCEPT !.sigma_mS = TRUE],
      [Scenario("test_StepiCSD_units_04", "StepiCSD", "cylinders")
          EXCEPT !.removed = TRUE],
      [Scenario("test_SplineiCSD", "SplineiCSD", "cylinders") EXCEPT !.plot = TRUE] }

TestNames == { sc.name : sc \in TestICSD }

ScenarioOf(name) == CHOOSE sc \in TestICSD : sc.name = name

DensityUnit(sc) == IF sc.fn = "cylinders" THEN A_per_m3 ELSE A_per_m2

\* the segment written at the contacts 6, 8, 10
C12_TruthAtEvenContacts(sc) ==
    Arr([k \in 0..(NumContacts - 1) |->
            IF k \in {6, 10} THEN RMul(Rat(-1, 2), sc.amp)
            ELSE IF k = 8 THEN sc.amp ELSE Zero],
        DensityUnit(sc))

\* C_i = np.zeros(z_i.size)*unit; C_i[7:12:2] += np.array([-.5, 1., -.5])*amp*unit
GroundTruth(sc) ==
    LET segment == <<Rat(-1, 2), Rat(1, 1), Rat(-1, 2)>>
    IN  Arr([k \in 0..(NumContacts - 1) |->
                IF k >= 7 /\ k < 12 /\ (k - 7) % 2 = 0
                THEN RAdd(Zero, RMul(segment[((k - 7) \div 2) + 1], sc.amp))
                ELSE Zero],
            DensityUnit(sc))

\* the locals a scenario builds before it synthesizes: the arguments of
\* the synthesizer
TestLocals(sc) ==
    LET z_j == Arr([k \in 0..(NumContacts - 1) |-> RMul(Rat(k, 1), RScale(One, -4))],
                   pq_m)
        ones(x) == Arr([k \in 0..(NumContacts - 1) |-> RMul(One, x)], pq_m)
    IN  [fn |-> sc.fn, z_j |-> z_j, z_i |-> z_j, C_i |-> GroundTruth(sc),
         R_i |-> ones(RScale(One, -3)), h_i |-> ones(RScale(One, -4)),
         sigma |-> sc.sigma, plot |-> sc.plot]

\* inds = np.delete(np.arange(21), 5), or every index
Inds(sc) == IF sc.removed THEN np_delete(NumContacts, 5) ELSE np_arange(NumContacts)

NotPassed == [mags |-> <<>>, units |-> pq_dimensionless]

\* 'lfp': phi_j, phi_j*1E3*pq.mV/pq.V or phi_j[inds]
HandedLfp(sc, trace) ==
    IF sc.lfp_mV THEN ArrTimesE3(trace, pq_mV, pq_V)
    ELSE IF sc.removed THEN Take(trace, Inds(sc))
    ELSE trace

\* 'coord_electrode' and 'h': a, a*1E3*pq.mm/pq.m or a[inds]
HandedLength(sc, a) ==
    IF sc.lengths_mm THEN ArrTimesE3(a, pq_mm, pq_m)
    ELSE IF sc.removed THEN Take(a, Inds(sc))
    ELSE a

\* 'sigma' and 'sigma_top': sigma or sigma*1E3*pq.mS/pq.S
HandedSigma(sc, sigma) ==
    IF sc.sigma_mS THEN QTimesE3(sigma, pq_mS, pq_S) ELSE sigma

\* the dictionary handed to the estimator
EstimatorInput(sc, loc, trace) ==
    [lfp |-> HandedLfp(sc, trace),
     coord_electrode |-> HandedLength(sc, loc.z_j),
     sigma |-> HandedSigma(sc, loc.sigma),
     sigma_top |-> IF sc.estimator = "StandardCSD" THEN NotPassed
                   ELSE HandedSigma(sc, loc.sigma),
     diam |-> IF sc.estimator = "StandardCSD" THEN NotPassed
              ELSE IF sc.removed THEN ArrTimesTwo(Take(loc.R_i, Inds(sc)))
              ELSE IF sc.lengths_mm THEN QTimesE3(MeanTimesTwo(loc.R_i), pq_mm, pq_m)
              ELSE MeanTimesTwo(loc.R_i),
     h |-> IF sc.estimator # "StepiCSD" THEN NotPassed ELSE HandedLength(sc, loc.h_i)]

\* the vector the estimate is compared with: C_i, or C_i[inds]
Expected(sc, C_i) == IF sc.removed THEN Take(C_i, Inds(sc)) ELSE C_i

(***************************************************************************)
(* The estimators of the icsd module, from their contract                  *)
(***************************************************************************)
\* an array in SI units
ArrSimplified(a) ==
    Arr([k \in DOMAIN a.mags |-> RScale(a.mags[k], a.units.e)], USimplified(a.units))

\* areal density for the plane and disk variants, volumetric for the others
EstimateUnit(estimator) ==
    IF estimator \in {"StandardCSD", "DeltaiCSD"} THEN A_per_m2 ELSE A_per_m3

\* the round-trip profile: -0.5, 1.0, -0.5 at the contacts 7, 9, 11 of a
\* probe with spacing 1e-4, zero elsewhere; z is a position in SI
RoundTripProfile(z) ==
    IF z = RScale(Rat(7, 1), -4) \/ z = RScale(Rat(11, 1), -4) THEN Rat(-1, 2)
    ELSE IF z = RScale(Rat(9, 1), -4) THEN One
    ELSE Zero

\* the potential of one source of density c at the distance dz, in SI
KernelAtDistance(estimator, dz, c, r, sigma) ==
    IF estimator = "StandardCSD"
    THEN RNeg(RMul(RDiv(c, RMul(Two, sigma)), dz))
    ELSE RMul(RDiv(c, RMul(Two, sigma)),
              RSub(RSqrt(RAdd(RMul(dz, dz), RMul(r, r))), dz))

\* the potential at z of one source of density c at zs, all in SI
ForwardKernel(estimator, z, zs, c, r, h, sigma) ==
    IF estimator \in {"StandardCSD", "DeltaiCSD"}
    THEN KernelAtDistance(estimator, RAbs(RSub(z, zs)), c, r, sigma)
    ELSE RMul(quad(RSub(zs, RDiv(h, Two)), RAdd(zs, RDiv(h, Two)), sigma, z, r)[1], c)

\* the diameter of the source k, in SI: diam is one value or one per source
SourceDiameter(input, k) ==
    IF "mags" \in DOMAIN input.diam THEN ArrSimplified(input.diam).mags[k]
    ELSE QSimplified(input.diam).mag

\* the geometry on the contacts z, n of them
GeometryAt(estimator, input, z, n) ==
    [n |-> n, z |-> z,
     r |-> [k \in 0..(n - 1) |->
               IF estimator = "StandardCSD" THEN Zero
               ELSE RDiv(SourceDiameter(input, k), Two)],
     h |-> IF estimator = "StepiCSD" THEN ArrSimplified(input.h).mags
           ELSE [k \in 0..(n - 1) |-> RSub(z[1], z[0])],
     sigma |-> QSimplified(input.sigma).mag]

\* the geometry an estimator works on, in SI: a source at every contact,
\* of radius diam / 2 and, for the step and spline variants, of thickness h
\* (the contact spacing where h is not passed)
EstimatorGeometry(estimator, input) ==
    GeometryAt(estimator, input, ArrSimplified(input.coord_electrode).mags,
               Size(input.coord_electrode))

RECURSIVE ForwardSum(_, _, _, _, _)
\* the potential at contact j of the sources i < n
ForwardSum(estimator, g, c, j, n) ==
    IF n = 0 THEN Zero
    ELSE RAdd(ForwardSum(estimator, g, c, j, n - 1),
              ForwardKernel(estimator, g.z[j], g.z[n - 1], c[n - 1], g.r[n - 1],
                            g.h[n - 1], g.sigma))

\* the trace of the density c on the geometry g, in V
Forward(estimator, g, c) ==
    [j \in 0..(g.n - 1) |-> ForwardSum(estimator, g, c, j, g.n)]

NoEstimate == [mags |-> <<>>, units |-> pq_dimensionless]

\* the profile times lam, where the lfp is lam times the trace f0 of the profile
ScaledProfile(estimator, g, lfp, c0, f0, lam) ==
    IF \A j \in 0..(g.n - 1) : lfp[j] = RMul(lam, f0[j])
    THEN Arr([k \in 0..(g.n - 1) |-> RMul(lam, c0[k])], EstimateUnit(estimator))
    ELSE NoEstimate

\* the factor is read at j0, the first contact where the trace f0 is not zero
FactorAt(estimator, g, lfp, c0, f0, j0) ==
    ScaledProfile(estimator, g, lfp, c0, f0, RDiv(lfp[j0], f0[j0]))

\* live: the contacts where the trace f0 of the profile is not zero
FitOnLive(estimator, g, lfp, c0, f0, live) ==
    IF DOMAIN lfp # 0..(g.n - 1) \/ live = {} THEN NoEstimate
    ELSE FactorAt(estimator, g, lfp, c0, f0,
                  CHOOSE j \in live : \A k \in live : j <= k)

FitToTrace(estimator, g, lfp, c0, f0) ==
    FitOnLive(estimator, g, lfp, c0, f0, { j \in 0..(g.n - 1) : f0[j] # Zero })

FitProfile(estimator, g, lfp, c0) ==
    FitToTrace(estimator, g, lfp, c0, Forward(estimator, g, c0))

FitOnGeometry(estimator, g, lfp) ==
    FitProfile(estimator, g, lfp, [k \in 0..(g.n - 1) |-> RoundTripProfile(g.z[k])])

\* get_csd(): the density, a multiple of the round-trip profile, whose
\* trace on the geometry handed is the lfp handed; its unit is the SI
\* density unit of the variant.  NoEstimate where there is none.
get_csd(estimator, input) ==
    IF ~SameDimension(input.lfp.units, pq_V) THEN NoEstimate
    ELSE FitOnGeometry(estimator, EstimatorGeometry(estimator, input),
                       ArrSimplified(input.lfp).mags)

(***************************************************************************)
(* The run of the suite: test(), unittest's loader and text runner         *)
(***************************************************************************)
\* loadTestsFromTestCase: the test methods sorted by name
LoadedSuite ==
    <<"test_DeltaiCSD_00", "test_DeltaiCSD_01", "test_DeltaiCSD_02",
      "test_DeltaiCSD_03", "test_DeltaiCSD_04", "test_SplineiCSD",
      "test_StandardCSD_00", "test_StandardCSD_01", "test_StandardCSD_02",
      "test_StandardCSD_03", "test_StepiCSD_01", "test_StepiCSD_02",
      "test_StepiCSD_03", "test_StepiCSD_units_00", "test_StepiCSD_units_04">>

\* a runner that stops at the first failure
C10_FailFast == TRUE

\* TextTestRunner(verbosity=verbosity): failfast keeps its default
failfast == FALSE

\* the synthesizer's result for every scenario
SynthesizedFor == [name \in TestNames |-> Synthesize(TestLocals(ScenarioOf(name)))]

\* get_csd on the input the scenario sc hands it after the synthesis s
EstimateAfter(sc, s) ==
    IF s.status = "raised" THEN NoEstimate
    ELSE get_csd(sc.estimator, EstimatorInput(sc, TestLocals(sc), s.ret[1]))

\* what the estimator returns for every scenario when it meets its
\* contract: get_csd on the input the scenario hands it
EstimateFor ==
    [name \in TestNames |-> EstimateAfter(ScenarioOf(name), SynthesizedFor[name])]

\* the most runs of the estimator that may break its contract in one run
MaxFailures == 2

\* an estimate off by one unit of density at its first contact
OffEstimate(csd) == [csd EXCEPT !.mags[0] = RAdd(@, One)]

\* an estimate in thousandths of its unit
MilliEstimate(csd) ==
    Arr([k \in DOMAIN csd.mags |-> RScale(csd.mags[k], 3)],
        [csd.units EXCEPT !.e = @ - 3])

NoLocals == [fn |-> "none"]

NoInput == [lfp |-> NotPassed]

\* no second scenario is started
NoFrame == [none |-> TRUE]

RunnerIdle ==
    /\ rpc = "start"
    /\ suite = <<>>
    /\ tnext = 1
    /\ tpc = "none"
    /\ tlocals = NoLocals
    /\ ttrace = NotPassed
    /\ tinput = NoInput
    /\ tcsd = NoEstimate
    /\ ran = [name \in TestNames |-> 0]
    /\ outcomes = [name \in TestNames |-> "none"]
    /\ modes = [name \in TestNames |-> "none"]
    /\ deviations = 0
    /\ report = <<>>
    /\ exitStatus = -1
    /\ parked = NoFrame

CurrentTest == suite[tnext]

SomeFailure == \E name \in TestNames : outcomes[name] \in {"FAIL", "ERROR"}

\* suite = unittest.TestLoader().loadTestsFromTestCase(TestICSD)
LoadSuite ==
    /\ rpc = "start"
    /\ rpc' = "running"
    /\ suite' = LoadedSuite
    /\ UNCHANGED <<tnext, tpc, tlocals, ttrace, tinput, tcsd, ran, outcomes, modes,
                   deviations, report, exitStatus, parked, kvars, svars>>

\* run(): the loop over the suite goes on while a test is left and the
\* result has not asked to stop
MayStartTest ==
    /\ rpc = "running"
    /\ tpc = "none"
    /\ tnext <= Len(suite)
    /\ ~(failfast /\ SomeFailure)

\* were the arrays module-level data, a test would find those another test
\* has built
C17_StartWithSharedArrays ==
    /\ MayStartTest
    /\ tpc' = "locals"
    /\ tlocals' = IF parked # NoFrame /\ parked.tpc # "none"
                  THEN parked.tlocals
                  ELSE TestLocals(ScenarioOf(CurrentTest))
    /\ ran' = [ran EXCEPT ![CurrentTest] = @ + 1]
    /\ UNCHANGED <<rpc, suite, tnext, ttrace, tinput, tcsd, outcomes, modes,
                   deviations, report, exitStatus, parked, kvars, svars>>

\* the runner starts the next test, which builds its locals
StartTest ==
    /\ MayStartTest
    /\ tpc' = "locals"
    /\ tlocals' = TestLocals(ScenarioOf(CurrentTest))
    /\ ran' = [ran EXCEPT ![CurrentTest] = @ + 1]
    /\ UNCHANGED <<rpc, suite, tnext, ttrace, tinput, tcsd, outcomes, modes,
                   deviations, report, exitStatus, parked, kvars, svars>>

\* the test ends with an outcome, which the result object collects
EndTest(outcome) ==
    /\ outcomes' = [outcomes EXCEPT ![CurrentTest] = outcome]
    /\ tnext' = tnext + 1
    /\ tpc' = "none"
    /\ tlocals' = NoLocals
    /\ ttrace' = NotPassed
    /\ tinput' = NoInput
    /\ tcsd' = NoEstimate

\* phi_j, C_i = get_lfp_of_...(z_j, z_i, C_i, ..., sigma, plot)
TestSynthesize ==
    /\ rpc = "running"
    /\ tpc = "locals"
    /\ \E s \in {SynthesizedFor[CurrentTest]} :
           IF s.status = "raised"
           THEN /\ EndTest("ERROR")
                /\ UNCHANGED figures
           ELSE /\ tpc' = "synthesized"
                /\ ttrace' = s.ret[1]
                /\ tlocals' = [tlocals EXCEPT !.C_i = s.ret[2]]
                /\ figures' = figures + s.figures
                /\ UNCHANGED <<tnext, tinput, tcsd, outcomes>>
    /\ UNCHANGED <<rpc, suite, ran, modes, deviations, report, exitStatus, parked, kvars,
                   spc, sargs, given, phi_j, si, sj, calls, sret>>

\* the input dictionary of the estimator
TestBuildInput ==
    /\ rpc = "running"
    /\ tpc = "synthesized"
    /\ tpc' = "input"
    /\ tinput' = EstimatorInput(ScenarioOf(CurrentTest), tlocals, ttrace)
    /\ UNCHANGED <<rpc, suite, tnext, tlocals, ttrace, tcsd, ran, outcomes, modes,
                   deviations, report, exitStatus, parked, kvars, svars>>

\* icsd.<Estimator>(**input).get_csd(), meeting the contract
TestEstimate ==
    /\ rpc = "running"
    /\ tpc = "input"
    /\ modes' = [modes EXCEPT ![CurrentTest] = "contract"]
    /\ \E csd \in {EstimateFor[CurrentTest]} :
           IF csd = NoEstimate
           THEN EndTest("ERROR")
           ELSE /\ tpc' = "estimated"
                /\ tcsd' = csd
                /\ UNCHANGED <<tnext, tlocals, ttrace, tinput, outcomes>>
    /\ UNCHANGED <<rpc, suite, ran, deviations, report, exitStatus, parked, kvars, svars>>

\* icsd.<Estimator>(**input).get_csd(), breaking the contract: it raises,
\* or returns other values, or another unit
TestEstimateBroken ==
    /\ rpc = "running"
    /\ tpc = "input"
    /\ deviations < MaxFailures
    /\ deviations' = deviations + 1
    /\ \E mode \in {"raises", "values", "units"}, csd \in {EstimateFor[CurrentTest]} :
        /\ modes' = [modes EXCEPT ![CurrentTest] = mode]
        /\ IF mode = "raises" \/ csd = NoEstimate
           THEN EndTest("ERROR")
           ELSE /\ tpc' = "estimated"
                /\ tcsd' = IF mode = "values" THEN OffEstimate(csd)
                                              ELSE MilliEstimate(csd)
                /\ UNCHANGED <<tnext, tlocals, ttrace, tinput, outcomes>>
    /\ UNCHANGED <<rpc, suite, ran, report, exitStatus, parked, kvars, svars>>

\* self.assertEqual(C_i.units, csd.units)
TestAssertUnits ==
    /\ rpc = "running"
    /\ tpc = "estimated"
    /\ IF UnitsEqual(tlocals.C_i.units, tcsd.units)
       THEN /\ tpc' = "unitsEqual"
            /\ UNCHANGED <<tnext, tlocals, ttrace, tinput, tcsd, outcomes>>
       ELSE EndTest("FAIL")
    /\ UNCHANGED <<rpc, suite, ran, modes, deviations, report, exitStatus, parked, kvars,
                   svars>>

\* nt.assert_array_almost_equal(C_i, csd), and the end of the test
TestAssertValues ==
    /\ rpc = "running"
    /\ tpc = "unitsEqual"
    /\ IF AlmostEqual(Expected(ScenarioOf(CurrentTest), tlocals.C_i), tcsd)
       THEN EndTest("ok")
       ELSE EndTest("FAIL")
    /\ UNCHANGED <<rpc, suite, ran, modes, deviations, report, exitStatus, parked, kvars,
                   svars>>

\* the tests of the suite with the given outcome, in the order of the suite
RECURSIVE WithOutcome(_, _, _)
WithOutcome(s, o, outcome) ==
    IF s = <<>> THEN <<>>
    ELSE (IF o[Head(s)] = outcome THEN <<Head(s)>> ELSE <<>>)
            \o WithOutcome(Tail(s), o, outcome)

\* result.printErrors() and the summary line, after the suite has run
PrintErrors ==
    /\ rpc = "running"
    /\ tpc = "none"
    /\ (tnext > Len(suite) \/ (failfast /\ SomeFailure))
    /\ rpc' = "reported"
    /\ report' = <<[errors |-> WithOutcome(suite, outcomes, "ERROR"),
                    failures |-> WithOutcome(suite, outcomes, "FAIL"),
                    testsRun |-> tnext - 1]>>
    /\ UNCHANGED <<suite, tnext, tpc, tlocals, ttrace, tinput, tcsd, ran, outcomes,
                   modes, deviations, exitStatus, parked, kvars, svars>>

\* run() returns, test() drops the result and the script ends
ScriptEnds ==
    /\ rpc = "reported"
    /\ rpc' = "exited"
    /\ exitStatus' = 0
    /\ UNCHANGED <<suite, tnext, tpc, tlocals, ttrace, tinput, tcsd, ran, outcomes,
                   modes, deviations, report, parked, kvars, svars>>

\* the state after the module is loaded: nothing has been called
Init == KernelIdle /\ SynthIdle /\ RunnerIdle

NextRun ==
    \/ LoadSuite
    \/ StartTest
    \/ TestSynthesize
    \/ TestBuildInput
    \/ TestEstimate
    \/ TestEstimateBroken
    \/ TestAssertUnits
    \/ TestAssertValues
    \/ PrintErrors
    \/ ScriptEnds

SpecRun == Init /\ [][NextRun]_vars

(***************************************************************************)
(* Two scenarios run interleaved.  The script runs the suite in one        *)
(* thread and in the order of the names; here any two scenarios are        *)
(* started, each in a frame of its own, and the running one may be         *)
(* suspended at any of its steps while the other one goes on.  The         *)
(* figures of pyplot, the result object and the estimator's history are    *)
(* the state the two have in common.                                       *)
(***************************************************************************)
\* the two scenarios are loaded: one will run first, the other is parked
LoadWorkers ==
    /\ rpc = "start"
    /\ rpc' = "running"
    /\ \E a, b \in TestNames :
        /\ a # b
        /\ suite' = <<a>>
        /\ parked' = [suite |-> <<b>>, tnext |-> 1, tpc |-> "none",
                      tlocals |-> NoLocals, ttrace |-> NotPassed,
                      tinput |-> NoInput, tcsd |-> NoEstimate]
    /\ UNCHANGED <<tnext, tpc, tlocals, ttrace, tinput, tcsd, ran, outcomes, modes,
                   deviations, report, exitStatus, kvars, svars>>

\* the running scenario is suspended and the parked one resumed: the locals
\* of a test method live in its frame
Switch ==
    /\ rpc = "running"
    /\ parked # NoFrame
    /\ parked' = [suite |-> suite, tnext |-> tnext, tpc |-> tpc,
                  tlocals |-> tlocals, ttrace |-> ttrace, tinput |-> tinput,
                  tcsd |-> tcsd]
    /\ suite' = parked.suite
    /\ tnext' = parked.tnext
    /\ tpc' = parked.tpc
    /\ tlocals' = parked.tlocals
    /\ ttrace' = parked.ttrace
    /\ tinput' = parked.tinput
    /\ tcsd' = parked.tcsd
    /\ UNCHANGED <<rpc, ran, outcomes, modes, deviations, report, exitStatus, kvars,
                   svars>>

NextInterleaved ==
    \/ LoadWorkers
    \/ Switch
    \/ StartTest
    \/ TestSynthesize
    \/ TestBuildInput
    \/ TestEstimate
    \/ TestEstimateBroken
    \/ TestAssertUnits
    \/ TestAssertValues

SpecInterleaved == Init /\ [][NextInterleaved]_vars

(***************************************************************************)
(* Specifications                                                          *)
(***************************************************************************)
SpecKernel == Init /\ [][NextKernel]_vars

NextSynth == SynthCall \/ SynthStep \/ SynthFinish \/ CallerResumes

SpecSynth == Init /\ [][NextSynth]_vars

(***************************************************************************)
(* Properties of the kernels, checked under SpecKernel                     *)
(***************************************************************************)
\* the units of the positional length arguments of a kernel call
LengthUnits(call) ==
    {call.z_j.units, call.z_i.units}
        \cup (IF call.fn \in {"disk", "cylinder"} THEN {call.R_i.units} ELSE {})
        \cup (IF call.fn = "cylinder" THEN {call.h_i.units} ELSE {})

\* the kernel named by a call record, applied to the record's arguments
ApplyKernel(call) ==
    CASE call.fn = "plane" ->
            potential_of_plane(call.z_j, call.z_i, call.C_i, call.sigma)
      [] call.fn = "disk" ->
            potential_of_disk(call.z_j, call.z_i, call.C_i, call.R_i, call.sigma)
      [] call.fn = "cylinder" ->
            potential_of_cylinder(call.z_j, call.z_i, call.C_i, call.R_i,
                                  call.h_i, call.sigma)

InMetres(q) == Q(RescaledMag(q, pq_m), pq_m)

\* the same call with every length argument expressed in metres
CallInMetres(call) ==
    CASE call.fn = "plane" ->
            [call EXCEPT !.z_j = InMetres(@), !.z_i = InMetres(@)]
      [] call.fn = "disk" ->
            [call EXCEPT !.z_j = InMetres(@), !.z_i = InMetres(@),
                         !.R_i = InMetres(@)]
      [] call.fn = "cylinder" ->
            [call EXCEPT !.z_j = InMetres(@), !.z_i = InMetres(@),
                         !.R_i = InMetres(@), !.h_i = InMetres(@)]

SameDimensionMixedScale(call) ==
    /\ \A u, v \in LengthUnits(call) : SameDimension(u, v)
    /\ Cardinality(LengthUnits(call)) > 1

\* C2: a kernel called with a field point z_j whose dimension differs from
\* that of the source position z_i raises at the unit assertion: nothing has
\* been evaluated (no kernel formula, no quadrature) and no value is returned.
C2_DimensionMismatchRaises ==
    (kcall # NoCall /\ ~SameDimension(kcall.z_j.units, kcall.z_i.units))
        => /\ kres.status = "raised"
           /\ kres.err = "units not equal"
           /\ kres.work = 0
           /\ kres.val = NoValue

C2_Witness ==
    /\ kcall # NoCall
    /\ kcall.fn = "plane"
    /\ kcall.z_j.units = S_per_m
    /\ kcall.z_i.units = pq_mm
    /\ kres.status = "raised"

\* C3 as stated: a call whose length arguments share the dimension but not
\* the scale succeeds, with the value the call gives on the same lengths
\* all expressed in one unit.
C3_MixedScaleReconciled ==
    (kcall # NoCall /\ SameDimensionMixedScale(kcall))
        => /\ kres.status = "returned"
           /\ Physical(kres.val) = Physical(ApplyKernel(CallInMetres(kcall)).val)

\* C3: a kernel whose length arguments share the dimension but not the
\* scale (mm and m) is rejected by the unit assertion before anything is
\* computed; with one unit for all of them the call returns a value.
C3_MixedScaleRejected ==
    kcall # NoCall =>
        /\ SameDimensionMixedScale(kcall)
              => /\ kres.status = "raised"
                 /\ kres.err = "units not equal"
                 /\ kres.work = 0
        /\ Cardinality(LengthUnits(kcall)) = 1 => kres.status = "returned"

C3_Witness ==
    /\ kcall # NoCall
    /\ kcall.fn = "cylinder"
    /\ kcall.z_j.units = pq_mm
    /\ kcall.z_i.units = pq_m
    /\ kres.status = "raised"

\* the disk kernel on the geometry of a cylinder call: same radius, density
\* magnitude, source position, field point and conductivity
DiskOfCylinder(call) ==
    potential_of_disk(call.z_j, call.z_i, Q(call.C_i.mag, A_per_m2), call.R_i,
                      call.sigma)

\* what si.quad returns inside a cylinder call
QuadOfCylinder(call) ==
    LET half == RDiv(call.h_i.mag, Two)
    IN  quad(RSub(call.z_i.mag, half), RAdd(call.z_i.mag, half),
             call.sigma.mag, call.z_j.mag, call.R_i.mag)

CylinderReturned == kcall # NoCall /\ kcall.fn = "cylinder" /\ kres.status = "returned"

\* |C_i| / (2 sigma), in SI
HalfDensityOverSigma(call) ==
    RDiv(RAbs(call.C_i.mag), RMul(Two, Physical(call.sigma).mag))

\* an upper bound of every square root taken for the call, in SI
RootBound(call) ==
    RAdd(RAdd(RAbs(RSub(Physical(call.z_j).mag, Physical(call.z_i).mag)),
              RDiv(Physical(call.h_i).mag, Two)),
         Physical(call.R_i).mag)

\* C8 as stated: at thickness 0 the cylinder kernel gives the value of the
\* disk kernel for the same radius, density magnitude, positions and
\* conductivity.
C8_ZeroThicknessIsDisk ==
    (CylinderReturned /\ kcall.h_i.mag = Zero)
        => Physical(kres.val) = Physical(DiskOfCylinder(kcall).val)

\* C8: the value of the cylinder kernel is bounded by |C_i| h_i R_i / (2 sigma),
\* so it goes to 0 with the thickness and is exactly 0 at h_i = 0, where the
\* disk value is not 0; it is the cylinder value divided by h_i that lies
\* within |C_i| / (2 sigma) * (h_i / 2 + two square-root roundings) of the
\* disk value.
C8_ThinCylinderVanishes ==
    CylinderReturned =>
        LET v    == Physical(kres.val).mag
            h    == Physical(kcall.h_i).mag
            r    == Physical(kcall.R_i).mag
            k    == HalfDensityOverSigma(kcall)
            disk == Physical(DiskOfCylinder(kcall).val).mag
            tol  == RMul(k, RAdd(RDiv(h, Two),
                                 RDiv(RMul(Two, RootBound(kcall)), Rat(SqrtRes, 1))))
        IN  /\ RLeq(RAbs(v), RMul(k, RMul(h, r)))
            /\ h = Zero => (v = Zero /\ disk # Zero)
            /\ h # Zero => RLeq(RAbs(RSub(RDiv(v, h), disk)), tol)

C8_Witness ==
    /\ CylinderReturned
    /\ kcall.h_i.mag = Zero
    /\ kcall.C_i.mag # Zero
    /\ kres.val.mag = Zero
    /\ DiskOfCylinder(kcall).val.mag # Zero

\* C9 as stated: the value a cylinder call returns carries the error
\* estimate of the quadrature.
C9_EstimateDelivered ==
    CylinderReturned => "abserr" \in DOMAIN kres.val

\* C9: a cylinder call returns the potential alone, a quantity of magnitude
\* C_i times the integral and the dimension of a potential; the error
\* estimate of the quadrature, whatever its size, is not part of the result
\* and the call neither fails nor warns because of it.
C9_EstimateDropped ==
    CylinderReturned =>
        /\ DOMAIN kres.val = {"mag", "units"}
        /\ kres.val.mag = RMul(QuadOfCylinder(kcall)[1], kcall.C_i.mag)
        /\ SameDimension(kres.val.units, pq_V)
        /\ kres.err = ""

C9_Witness ==
    /\ CylinderReturned
    /\ kcall.C_i.mag # Zero
    /\ QuadOfCylinder(kcall)[2] # Zero
    /\ DOMAIN kres.val = {"mag", "units"}

(***************************************************************************)
(* Properties of the synthesizers, checked under SpecSynth                 *)
(***************************************************************************)
RECURSIVE KernelSum(_, _, _)
\* the sum over the sources i < n of the kernel at (z_j[j], z_i[i]), in V
KernelSum(args, n, j) ==
    IF n = 0 THEN Zero
    ELSE RAdd(KernelSum(args, n - 1, j),
              RescaledMag(KernelCall(args, n - 1, j).val, pq_V))

\* the arguments restricted to the sources idx[1], idx[2], ...
PickSources(args, idx) ==
    [args EXCEPT !.z_i = Take(@, idx), !.C_i = Take(@, idx),
                 !.R_i = Take(@, idx), !.h_i = Take(@, idx)]

\* elementwise sum of two traces
TraceSum(p, q) == Arr([j \in DOMAIN p.mags |-> RAdd(p.mags[j], q.mags[j])], p.units)

TraceOf(args) == Synthesize(args).ret[1]

SynthReturned == spc = "returned"

\* C4: a synthesizer that returns gives a trace in V of exactly M values,
\* trace[j] being the sum over all N sources of the kernel at
\* (z_j[j], z_i[i]) with the source's own density, radius and thickness,
\* and the kernel has been called exactly once for every pair (i, j).
C4_TraceIsKernelSum ==
    SynthReturned =>
        LET M == Size(sargs.z_j)
            N == Size(sargs.z_i)
        IN  /\ DOMAIN sret[1].mags = 0..(M - 1)
            /\ sret[1].units = pq_V
            /\ \A j \in 0..(M - 1) : sret[1].mags[j] = KernelSum(sargs, N, j)
            /\ DOMAIN calls = (0..(N - 1)) \X (0..(M - 1))
            /\ \A p \in DOMAIN calls : calls[p] = 1

C4_Witness ==
    /\ SynthReturned
    /\ sargs.fn = "cylinders"
    /\ Size(sargs.z_j) > 1
    /\ Size(sargs.z_i) > 1
    /\ \A j \in DOMAIN sret[1].mags : sret[1].mags[j] # Zero

\* C5: for any two sources a, b of a call that returned, the trace of the
\* two together is, electrode by electrode, the sum of the trace of a alone
\* and the trace of b alone; with exactly two sources this is the trace
\* the call returned.
C5_Superposition ==
    SynthReturned =>
        LET N == Size(sargs.z_i)
        IN  /\ \A a, b \in 0..(N - 1) :
                  a < b => TraceOf(PickSources(sargs, <<a, b>>))
                              = TraceSum(TraceOf(PickSources(sargs, <<a>>)),
                                         TraceOf(PickSources(sargs, <<b>>)))
            /\ N = 2 => sret[1] = TraceSum(TraceOf(PickSources(sargs, <<0>>)),
                                           TraceOf(PickSources(sargs, <<1>>)))

C5_Witness ==
    /\ SynthReturned
    /\ sargs.fn = "disks"
    /\ Size(sargs.z_i) = 2
    /\ Size(sargs.z_j) > 1
    /\ sret[1] # TraceOf(PickSources(sargs, <<0>>))
    /\ sret[1] # TraceOf(PickSources(sargs, <<1>>))

\* C6: from the call to the return the arguments of a synthesizer are the
\* ones the caller passed (z_j, z_i, C_i, R_i, h_i, sigma unmodified), and
\* the second result is the density vector C_i as passed: same length,
\* values and unit.
C6_DensityPassedThrough ==
    /\ spc # "idle" => sargs = given.args
    /\ SynthReturned => sret[2] = given.args.C_i

C6_Witness ==
    /\ SynthReturned
    /\ sargs.fn = "planes"
    /\ Size(sargs.C_i) > 1
    /\ sret[1] # InitialTrace(Size(sargs.z_j))
    /\ sret[2] = given.args.C_i

\* C7: the pair a synthesizer returns is the pair it returns for the same
\* arguments with the plot flag inverted, and the call opens one figure
\* when the flag is set and none when it is not.
C7_PlotFlagOnlyPlots ==
    /\ spc \in {"loop", "finish", "raised"} => figures = given.figures
    /\ SynthReturned =>
          /\ sret = Synthesize([sargs EXCEPT !.plot = ~@]).ret
          /\ figures = given.figures + (IF sargs.plot THEN 1 ELSE 0)

C7_Witness ==
    /\ SynthReturned
    /\ sargs.plot
    /\ figures = given.figures + 1
    /\ sret = Synthesize([sargs EXCEPT !.plot = FALSE]).ret

(***************************************************************************)
(* Properties of the run of the suite, checked under SpecRun               *)
(***************************************************************************)
\* the runs of the estimator that broke its contract
Broken == {"raises", "values", "units"}

\* the test in progress holds the estimate of an estimator that met its
\* contract
ContractEstimate ==
    /\ rpc = "running"
    /\ tpc \in {"estimated", "unitsEqual"}
    /\ modes[CurrentTest] = "contract"

C10_FailuresNeverHalt ==
    /\ \A name \in TestNames : ran[name] <= 1
    /\ (rpc = "running" /\ tpc = "none" /\ tnext <= Len(suite)) => MayStartTest
    /\ rpc \in {"start", "running"} => report = <<>>
    /\ rpc \in {"reported", "exited"} =>
          /\ \A name \in TestNames :
                ran[name] = 1 /\ outcomes[name] \in {"ok", "FAIL", "ERROR"}
          /\ Len(report) = 1
          /\ report[1].testsRun = Cardinality(TestICSD)
          /\ report[1].failures = WithOutcome(LoadedSuite, outcomes, "FAIL")
          /\ report[1].errors = WithOutcome(LoadedSuite, outcomes, "ERROR")

C10_Witness ==
    /\ rpc = "reported"
    /\ outcomes[LoadedSuite[1]] = "FAIL"
    /\ Len(report[1].failures) = 2
    /\ \A name \in TestNames : ran[name] = 1
    /\ outcomes[LoadedSuite[Len(LoadedSuite)]] = "ok"

\* C11 as stated: the script ends with an exit status that is not 0 exactly
\* when some scenario of the run failed or errored.
C11_ExitStatusReflectsFailures ==
    rpc = "exited" => ((exitStatus # 0) <=> SomeFailure)

\* a test is in progress and holds its locals
TestInProgress == rpc = "running" /\ tpc # "none"

\* the density vector c has 21 entries, all zero but -0.5, 1.0, -0.5 times
\* amp at the contacts 7, 9 and 11, in the unit u
SegmentInZeros(c, amp, u) ==
    /\ DOMAIN c.mags = 0..20
    /\ c.units = u
    /\ c.mags[7] = RMul(Rat(-1, 2), amp)
    /\ c.mags[9] = amp
    /\ c.mags[11] = RMul(Rat(-1, 2), amp)
    /\ \A k \in 0..20 : k \notin {7, 9, 11} => c.mags[k] = Zero

\* 21 electrode positions k * 1e-4 m
EvenlySpaced(z) ==
    /\ DOMAIN z.mags = 0..20
    /\ z.units = pq_m
    /\ \A k \in 0..20 : z.mags[k] = RatE(k, 1, -4)

\* the density unit of the geometry a scenario synthesizes with
NativeDensityUnit(name) ==
    IF ScenarioOf(name).fn = "cylinders" THEN Unit(-3, 1, 0, 0) ELSE Unit(-2, 1, 0, 0)

\* C12 as stated: in every scenario the ground truth is -0.5, 1.0, -0.5 at
\* the contacts 7, 9, 11 of 21, zero elsewhere, in the native density unit,
\* with 21 electrodes spaced 1e-4 m.
C12_SameTruthEverywhere ==
    TestInProgress =>
        /\ SegmentInZeros(tlocals.C_i, One, NativeDensityUnit(CurrentTest))
        /\ EvenlySpaced(tlocals.z_j)

\* C12: in every scenario the ground truth has 21 entries, zero except at
\* the contacts 7, 9, 11, in the native density unit (A/m**2 for planes and
\* disks, A/m**3 for cylinders), with 21 electrodes spaced 1e-4 m; the
\* values there are -0.5, 1.0, -0.5, except in test_StandardCSD_01, where
\* they are these times 1E3: -500, 1000, -500.
C12_TruthSegment ==
    TestInProgress =>
        /\ SegmentInZeros(tlocals.C_i,
                          IF CurrentTest = "test_StandardCSD_01" THEN Rat(1000, 1)
                                                                  ELSE One,
                          NativeDensityUnit(CurrentTest))
        /\ EvenlySpaced(tlocals.z_j)

C12_Witness ==
    /\ TestInProgress
    /\ CurrentTest = "test_StandardCSD_01"
    /\ tpc = "estimated"
    /\ tlocals.C_i.mags[9] = Rat(1000, 1)
    /\ tlocals.C_i.mags[7] = Rat(-500, 1)

PlaneReturned == kcall # NoCall /\ kcall.fn = "plane" /\ kres.status = "returned"

\* z_j - z_i of a call, in m
Offset(call) == RSub(Physical(call.z_j).mag, Physical(call.z_i).mag)

\* the plane call with the field point moved to z_i + k * (z_j - z_i)
PlaneAtMultiple(call, k) ==
    potential_of_plane(
        Q(RAdd(call.z_i.mag, RMul(k, RSub(call.z_j.mag, call.z_i.mag))), call.z_j.units),
        call.z_i, call.C_i, call.sigma)

\* the far field point: a million times the distance
Million == RatE(1, 1, 6)

\* C13: with z_j and z_i in one length unit the plane kernel returns, and
\* the potential it returns is -(C_i / (2 sigma)) |z_j - z_i|: zero where
\* z_j = z_i, of the sign opposite to C_i elsewhere, the same at the mirrored
\* field point z_i - (z_j - z_i), and a million times larger, still without
\* an error, at a million times the distance.
C13_PlaneFormula ==
    /\ (kcall # NoCall /\ kcall.fn = "plane" /\ kcall.z_j.units = kcall.z_i.units)
          => kres.status = "returned"
    /\ PlaneReturned =>
          LET v == Physical(kres.val).mag
              c == Physical(kcall.C_i).mag
              s == Physical(kcall.sigma).mag
              d == Offset(kcall)
          IN  /\ RLess(Zero, s)
              /\ SameDimension(kres.val.units, pq_V)
              /\ v = RNeg(RMul(RDiv(c, RMul(Two, s)), RAbs(d)))
              /\ d = Zero => v = Zero
              /\ d # Zero => /\ RLess(Zero, c) => RLess(v, Zero)
                             /\ RLess(c, Zero) => RLess(Zero, v)
              /\ PlaneAtMultiple(kcall, RNeg(One)).status = "returned"
              /\ Physical(PlaneAtMultiple(kcall, RNeg(One)).val).mag = v
              /\ PlaneAtMultiple(kcall, Million).status = "returned"
              /\ Physical(PlaneAtMultiple(kcall, Million).val).mag = RMul(Million, v)

C13_Witness ==
    /\ PlaneReturned
    /\ kcall.z_j = Q(Rat(-11, 1), pq_mm)
    /\ kcall.z_i = Q(Zero, pq_mm)
    /\ kcall.C_i.mag = Rat(-1, 2)
    /\ RLess(Zero, Physical(kres.val).mag)

\* a length in the other scale: mm for m, m for mm
OtherLength(q) ==
    IF q.units = pq_m THEN Q(RescaledMag(q, pq_mm), pq_mm)
                      ELSE Q(RescaledMag(q, pq_m), pq_m)

\* a conductivity in the other scale: mS/m for S/m, S/m for mS/m
OtherConductivity(q) ==
    IF q.units = S_per_m THEN Q(RescaledMag(q, mS_per_m), mS_per_m)
                         ELSE Q(RescaledMag(q, S_per_m), S_per_m)

\* the cylinder call with every length re-expressed in the other scale
LengthsRescaled(call) ==
    [call EXCEPT !.z_j = OtherLength(@), !.z_i = OtherLength(@),
                 !.R_i = OtherLength(@), !.h_i = OtherLength(@)]

\* the cylinder call with the conductivity re-expressed in the other scale
ConductivityRescaled(call) == [call EXCEPT !.sigma = OtherConductivity(@)]

\* the results r, q carry magnitudes and units that differ by reciprocal
\* powers of ten, 10**k and 10**(-k), k not 0
ReciprocalFactors(r, q) ==
    /\ r.units.e # q.units.e
    /\ [r.units EXCEPT !.e = 0] = [q.units EXCEPT !.e = 0]
    /\ r.mag = RScale(q.mag, q.units.e - r.units.e)

\* C14: a cylinder call that returns gives C_i times the quadrature of the
\* integrand on the bare magnitudes, in the unit
\* C_i.units * z_i.units**2 / sigma.units, which has the dimension of a
\* voltage; with all lengths in the other scale (m, mm), or the conductivity
\* in the other scale (S/m, mS/m), the call returns a magnitude and a unit
\* changed by reciprocal factors: the same physical potential.
C14_UnitReattached ==
    CylinderReturned =>
        /\ kres.val.mag = RMul(QuadOfCylinder(kcall)[1], kcall.C_i.mag)
        /\ kres.val.units = UDiv(UMul(kcall.C_i.units, UPow(kcall.z_i.units, 2)),
                                 kcall.sigma.units)
        /\ SameDimension(kres.val.units, pq_V)
        /\ ApplyKernel(LengthsRescaled(kcall)).status = "returned"
        /\ Physical(ApplyKernel(LengthsRescaled(kcall)).val) = Physical(kres.val)
        /\ kres.val.mag # Zero
              => ReciprocalFactors(ApplyKernel(LengthsRescaled(kcall)).val, kres.val)
        /\ ApplyKernel(ConductivityRescaled(kcall)).status = "returned"
        /\ Physical(ApplyKernel(ConductivityRescaled(kcall)).val) = Physical(kres.val)
        /\ kres.val.mag # Zero
              => ReciprocalFactors(ApplyKernel(ConductivityRescaled(kcall)).val, kres.val)

C14_Witness ==
    /\ CylinderReturned
    /\ kcall.z_j.units = pq_mm
    /\ kcall.sigma.units = mS_per_m
    /\ kres.val.mag # Zero
    /\ kres.val.units.e = -3
    /\ Physical(ApplyKernel(LengthsRescaled(kcall)).val) = Physical(kres.val)

\* the scenarios that hand the estimator rescaled inputs, by what they rescale
TraceRescaledTests == {"test_StandardCSD_01", "test_DeltaiCSD_01", "test_StepiCSD_01"}

LengthRescaledTests == {"test_StandardCSD_02", "test_DeltaiCSD_02", "test_StepiCSD_02"}

ConductivityRescaledTests ==
    {"test_StandardCSD_03", "test_DeltaiCSD_03", "test_StepiCSD_03"}

RescaledTests == TraceRescaledTests \cup LengthRescaledTests \cup ConductivityRescaledTests

\* the running test has built the input dictionary of the estimator
InputBuilt == rpc = "running" /\ tpc \in {"input", "estimated", "unitsEqual"}

\* the magnitudes of an array or of a scalar quantity, as a function
MagsOf(x) == IF "mags" \in DOMAIN x THEN x.mags ELSE [k \in {0} |-> x.mag]

\* x is y with the magnitude times 1e3 and the unit divided by 1e3
TimesE3(x, y) ==
    /\ SameDimension(x.units, y.units)
    /\ x.units.e = y.units.e - 3
    /\ DOMAIN MagsOf(x) = DOMAIN MagsOf(y)
    /\ \A k \in DOMAIN MagsOf(x) : MagsOf(x)[k] = RMul(MagsOf(y)[k], Rat(1000, 1))

\* x and y denote the same physical quantity
SamePhysical(x, y) ==
    /\ SameDimension(x.units, y.units)
    /\ DOMAIN MagsOf(x) = DOMAIN MagsOf(y)
    /\ \A k \in DOMAIN MagsOf(x) :
          RScale(MagsOf(x)[k], x.units.e) = RScale(MagsOf(y)[k], y.units.e)

\* x is handed as y itself, or rescaled where rescaled is TRUE
Handed(x, y, rescaled) ==
    /\ SamePhysical(x, y)
    /\ IF rescaled THEN TimesE3(x, y) ELSE x = y

\* twice the common radius of the sources
Diameter(R_i) == Q(RMul(Two, R_i.mags[0]), R_i.units)

\* C15: in the scenarios _01, _02, _03 of every estimator each input handed
\* to the estimator denotes the physical quantity the trace was synthesized
\* with: lfp is the trace (times 1e3 in mV in the _01 scenarios),
\* coord_electrode, diam and h are z_j, twice the radius and h_i (times 1e3
\* in mm in the _02 scenarios), sigma and sigma_top are sigma (times 1e3
\* in a unit a thousandth of sigma's in the _03 scenarios); the trace is
\* the one synthesized from the locals of the scenario, and the density
\* compared with the estimate is the density it was synthesized from.
C15_RescaledInputsDenoteTheSame ==
    (InputBuilt /\ CurrentTest \in RescaledTests) =>
        LET name == CurrentTest
            est  == ScenarioOf(name).estimator
            mV   == name \in TraceRescaledTests
            mm   == name \in LengthRescaledTests
            mS   == name \in ConductivityRescaledTests
        IN  /\ Handed(tinput.lfp, ttrace, mV)
            /\ Handed(tinput.coord_electrode, tlocals.z_j, mm)
            /\ Handed(tinput.sigma, tlocals.sigma, mS)
            /\ est # "StandardCSD" =>
                  /\ Handed(tinput.sigma_top, tlocals.sigma, mS)
                  /\ Handed(tinput.diam, Diameter(tlocals.R_i), mm)
            /\ est = "StepiCSD" => Handed(tinput.h, tlocals.h_i, mm)
            /\ ttrace = SynthesizedFor[name].ret[1]
            /\ tlocals.C_i = SynthesizedFor[name].ret[2]
            /\ tlocals = TestLocals(ScenarioOf(name))
            /\ Expected(ScenarioOf(name), tlocals.C_i) = tlocals.C_i

C15_Witness ==
    /\ InputBuilt
    /\ CurrentTest = "test_StepiCSD_02"
    /\ tinput.h.units = pq_mm
    /\ tinput.h.mags[0] = RatE(1, 1, -1)
    /\ tinput.coord_electrode.mags[20] = Rat(2, 1)
    /\ tinput.diam = Q(Rat(2, 1), pq_mm)
    /\ tinput.lfp = ttrace

\* the scenarios with one contact removed
NonContiguousTests == {"test_DeltaiCSD_04", "test_StepiCSD_units_04"}

\* the k-th of the indices 0..20 without 5
Kept(k) == IF k < 5 THEN k ELSE k + 1

\* x is the array y restricted to the indices 0..20 without 5
Restricted(x, y) ==
    /\ DOMAIN y.mags = 0..20
    /\ DOMAIN x.mags = 0..19
    /\ x.units = y.units
    /\ \A k \in 0..19 : x.mags[k] = y.mags[Kept(k)]

\* the array of twice the values of a
Doubled(a) == [mags |-> [k \in DOMAIN a.mags |-> RAdd(a.mags[k], a.mags[k])],
               units |-> a.units]

\* C16: in the scenarios with contact 5 removed, the trace, the electrode
\* coordinates, the per-contact diameters (twice the radii), the thicknesses
\* (step estimator) and the ground truth used in the comparison are the
\* full 21-entry arrays restricted to the same 20 indices 0..20 without 5,
\* entry k of each belonging to contact Kept(k); the coordinates handed are
\* strictly increasing; the trace was synthesized from all 21 electrodes
\* and all 21 sources.
C16_SameIndexSet ==
    (InputBuilt /\ CurrentTest \in NonContiguousTests) =>
        /\ Restricted(tinput.lfp, ttrace)
        /\ Restricted(tinput.coord_electrode, tlocals.z_j)
        /\ Restricted(tinput.diam, Doubled(tlocals.R_i))
        /\ CurrentTest = "test_StepiCSD_units_04" => Restricted(tinput.h, tlocals.h_i)
        /\ Restricted(Expected(ScenarioOf(CurrentTest), tlocals.C_i), tlocals.C_i)
        /\ \A k \in 0..18 :
              RLess(tinput.coord_electrode.mags[k], tinput.coord_electrode.mags[k + 1])
        /\ DOMAIN tlocals.z_i.mags = 0..20
        /\ ttrace = SynthesizedFor[CurrentTest].ret[1]
        /\ tlocals = TestLocals(ScenarioOf(CurrentTest))

C16_Witness ==
    /\ InputBuilt
    /\ CurrentTest = "test_StepiCSD_units_04"
    /\ tinput.coord_electrode.mags[4] = RatE(4, 1, -4)
    /\ tinput.coord_electrode.mags[5] = RatE(6, 1, -4)
    /\ tinput.lfp.mags[5] = ttrace.mags[6]
    /\ Size(tinput.h) = 20

(***************************************************************************)
(* C17: the scenarios are independent of one another                       *)
(***************************************************************************)
\* the frame of the scenario that is running now
Running ==
    [suite |-> suite, tnext |-> tnext, tpc |-> tpc, tlocals |-> tlocals,
     ttrace |-> ttrace, tinput |-> tinput, tcsd |-> tcsd]

\* the two scenarios are started
Interleaved == rpc = "running" /\ parked # NoFrame

\* what the estimator hands back in the scenario run alone, for what the
\* estimator does
CsdAlone(name, mode) ==
    IF mode = "contract" THEN EstimateFor[name]
    ELSE IF mode = "values" THEN OffEstimate(EstimateFor[name])
    ELSE MilliEstimate(EstimateFor[name])

\* the outcome of the scenario run alone, for what the estimator does
OutcomeAlone(name, mode) ==
    IF SynthesizedFor[name].status = "raised" THEN "ERROR"
    ELSE IF mode = "raises" \/ EstimateFor[name] = NoEstimate THEN "ERROR"
    ELSE IF ~UnitsEqual(TestLocals(ScenarioOf(name)).C_i.units,
                        CsdAlone(name, mode).units) THEN "FAIL"
    ELSE IF AlmostEqual(Expected(ScenarioOf(name), TestLocals(ScenarioOf(name)).C_i),
                        CsdAlone(name, mode)) THEN "ok"
    ELSE "FAIL"

\* the frame holds what the scenario holds at this step when it runs alone
AsAlone(f) ==
    LET name == f.suite[1]
        sc == ScenarioOf(name)
        trace == SynthesizedFor[name].ret[1]
    IN  /\ f.tpc = "none" =>
            /\ f.tlocals = NoLocals /\ f.ttrace = NotPassed
            /\ f.tinput = NoInput /\ f.tcsd = NoEstimate
        /\ f.tpc # "none" => f.tlocals = TestLocals(sc)
        /\ f.tpc = "locals" => f.ttrace = NotPassed
        /\ f.tpc \in {"synthesized", "input", "estimated", "unitsEqual"} =>
            f.ttrace = trace
        /\ f.tpc \in {"locals", "synthesized"} => f.tinput = NoInput
        /\ f.tpc \in {"input", "estimated", "unitsEqual"} =>
            f.tinput = EstimatorInput(sc, TestLocals(sc), trace)
        /\ f.tpc \in {"locals", "synthesized", "input"} => f.tcsd = NoEstimate
        /\ f.tpc \in {"estimated", "unitsEqual"} =>
            f.tcsd = CsdAlone(name, modes[name])
        /\ f.tnext = 1 => outcomes[name] = "none"
        /\ f.tnext = 2 => outcomes[name] = OutcomeAlone(name, modes[name])
        /\ ran[name] = (IF f.tpc = "none" /\ f.tnext = 1 THEN 0 ELSE 1)

\* the frame's scenario asks for a plot and is past its synthesizer
HasPlotted(f) ==
    /\ TestLocals(ScenarioOf(f.suite[1])).plot
    /\ (f.tnext = 2 \/ f.tpc \in {"synthesized", "input", "estimated", "unitsEqual"})

====
